---- MODULE Spec2Model ----
(***************************************************************************)
(* Model of node-libas2's AS2Disposition module                            *)
(* (src/src/AS2Disposition/AS2Disposition.ts): the header decoder          *)
(* toNotification, the AS2Disposition constructor, toMimeNode and the      *)
(* static pipelines outgoing and incoming, plus the crypto-service         *)
(* contract for compress/decompress exercised by src/test/helpers.ts.      *)
(*                                                                         *)
(* JavaScript strings are sequences of one-character strings; an optional  *)
(* (possibly undefined) value is a sequence of length 0 or 1.              *)
(***************************************************************************)
EXTENDS Integers, Sequences, FiniteSets, TLC

VARIABLES
  \* ---- toNotification(key, value) ----
  cpc,       \* "call" before the decoder ran, "ret" after
  fieldKey,  \* the field name passed to toNotification
  fieldValue,\* the raw field value passed to toNotification
  segs,      \* the modifier segments fieldValue was written from (Disposition inputs)
  ret,       \* what toNotification returned ([key, result]) or that it threw
  \* ---- the MIME nodes ----
  heap,      \* node id -> the node's fields (parentNode, childNodes, headers, content)
  \* ---- AS2Disposition.outgoing(options) ----
  opc,          \* where the call stands: "enter", "decrypt", "verify", "build",
                \* "return", and "done" / "thrown" once it is settled
  options,      \* the options bag of the call
  rootNode,     \* local rootNode
  errored,      \* local errored
  explanation,  \* local explanation
  notification, \* local notification
  mdn,          \* the AS2Disposition built at line 246, if any
  settled,      \* what the promise settled with: a node or a thrown error
  calls,        \* the decrypt / verify / sign calls made so far, with their outcomes
  \* ---- AS2Disposition.incoming(node, signed) ----
  ipc,          \* where the call stands: "enter", "verify", "construct", and
                \* "done" / "thrown" once it is settled
  inNode,       \* parameter node
  inSigned,     \* parameter signed
  inRootNode,   \* local rootNode
  inCalls,      \* the verify calls made so far, with their outcomes
  constructed,  \* the node handed to new AS2Disposition(...), if the call got there
  inSettled,    \* what the promise settled with: the report or a thrown error
  \* ---- AS2Crypto.compress / decompress (node, options) ----
  zpc,          \* "call" before the call, "settled" after
  zOp,          \* which of the two was called
  zNode,        \* parameter node
  zOptions,     \* parameter options
  zSettled      \* what the promise settled with

codecVars == <<cpc, fieldKey, fieldValue, segs, ret>>

outVars == <<opc, options, rootNode, errored, explanation, notification, mdn,
             settled, calls>>

inVars == <<ipc, inNode, inSigned, inRootNode, inCalls, constructed, inSettled>>

cryptoVars == <<zpc, zOp, zNode, zOptions, zSettled>>

vars == <<codecVars, heap, outVars, inVars, cryptoVars>>

-----------------------------------------------------------------------------
(* Bounds of the model.                                                    *)

MaxSegs == 2        \* modifier segments after the type/action of a Disposition value
MaxUpper == 1       \* characters of a field name written in upper case
MaxMessages == 2    \* distinct messages an Error thrown by a crypto call may carry

-----------------------------------------------------------------------------
(* Optional values.                                                        *)

undefined == <<>>
Some(x) == <<x>>
isDefined(m) == m # <<>>
valOf(m) == Head(m)

-----------------------------------------------------------------------------
(* JavaScript string primitives used by toNotification.                    *)

lowerAlphabet ==
  <<"a","b","c","d","e","f","g","h","i","j","k","l","m",
    "n","o","p","q","r","s","t","u","v","w","x","y","z">>

upperAlphabet ==
  <<"A","B","C","D","E","F","G","H","I","J","K","L","M",
    "N","O","P","Q","R","S","T","U","V","W","X","Y","Z">>

\* position of character c in alphabet a, or 0
alphaIndex(c, a) ==
  IF \E i \in DOMAIN a : a[i] = c
    THEN CHOOSE i \in DOMAIN a : a[i] = c
    ELSE 0

lowerChar(c) ==
  LET i == alphaIndex(c, upperAlphabet) IN IF i = 0 THEN c ELSE lowerAlphabet[i]

upperChar(c) ==
  LET i == alphaIndex(c, lowerAlphabet) IN IF i = 0 THEN c ELSE upperAlphabet[i]

\* String.prototype.toLowerCase / toUpperCase
toLowerCase(s) == [i \in DOMAIN s |-> lowerChar(s[i])]
toUpperCase(s) == [i \in DOMAIN s |-> upperChar(s[i])]

\* String.prototype.indexOf(c) for a one-character c: 0-based, -1 when absent
indexOf(s, c) ==
  IF \E i \in DOMAIN s : s[i] = c
    THEN (CHOOSE i \in DOMAIN s : s[i] = c /\ \A j \in DOMAIN s : j < i => s[j] # c) - 1
    ELSE 0 - 1

\* String.prototype.slice(from) and slice(from, to), 0-based, to exclusive
sliceFrom(s, from) == SubSeq(s, from + 1, Len(s))
slice(s, from, to) == SubSeq(s, from + 1, to)

\* String.prototype.substring(from) and charAt(i)
substring(s, from) == SubSeq(s, from + 1, Len(s))
charAt(s, i) == IF i < Len(s) THEN <<s[i + 1]>> ELSE <<>>

\* String.prototype.startsWith
startsWith(s, p) == Len(p) <= Len(s) /\ SubSeq(s, 1, Len(p)) = p

\* String.prototype.trim (the inputs use the space as their only white space)
RECURSIVE trimStart(_)
trimStart(s) ==
  IF s # <<>> /\ Head(s) = " " THEN trimStart(Tail(s)) ELSE s

RECURSIVE trimEnd(_)
trimEnd(s) ==
  IF s # <<>> /\ s[Len(s)] = " " THEN trimEnd(SubSeq(s, 1, Len(s) - 1)) ELSE s

trim(s) == trimEnd(trimStart(s))

\* String.prototype.split(c) for a one-character separator
RECURSIVE split(_, _)
split(s, c) ==
  LET i == indexOf(s, c) IN
    IF i = 0 - 1
      THEN <<s>>
      ELSE <<slice(s, 0, i)>> \o split(sliceFrom(s, i + 1), c)

\* Array.prototype.join(sep)
RECURSIVE join(_, _)
join(arr, sep) ==
  IF arr = <<>> THEN <<>>
  ELSE IF Len(arr) = 1 THEN arr[1]
  ELSE arr[1] \o sep \o join(Tail(arr), sep)

\* element i (0-based) of an array, undefined past its end
at(arr, i) == IF i < Len(arr) THEN Some(arr[i + 1]) ELSE undefined

-----------------------------------------------------------------------------
(* String literals of toNotification.                                      *)

sReportingUa == <<"r","e","p","o","r","t","i","n","g","-","u","a">>
sMdnGateway == <<"m","d","n","-","g","a","t","e","w","a","y">>
sOriginalMessageId == <<"o","r","i","g","i","n","a","l","-","m","e","s","s","a","g","e","-","i","d">>
sOriginalRecipient == <<"o","r","i","g","i","n","a","l","-","r","e","c","i","p","i","e","n","t">>
sFinalRecipient == <<"f","i","n","a","l","-","r","e","c","i","p","i","e","n","t">>
sDisposition == <<"d","i","s","p","o","s","i","t","i","o","n">>
sReceivedContentMic == <<"r","e","c","e","i","v","e","d","-","c","o","n","t","e","n","t","-","m","i","c">>
sHeaders == <<"h","e","a","d","e","r","s">>
sProcessed == <<"p","r","o","c","e","s","s","e","d">>
sFailed == <<"f","a","i","l","e","d">>

\* the names every object literal {} inherits from Object.prototype that a
\* lower-cased key can equal
sConstructor == <<"c","o","n","s","t","r","u","c","t","o","r">>
sProto == <<"_","_","p","r","o","t","o","_","_">>
objectPrototypeNames == {sConstructor, sProto}

-----------------------------------------------------------------------------
(* toNotification (lines 24-104).                                          *)

\* lines 30-39: header-name -> camelCase
capitalize(chars) ==
  toUpperCase(charAt(chars, 0)) \o substring(toLowerCase(chars), 1)

newKey(str) ==
  LET pieces == split(toLowerCase(str), "-") IN
    join([i \in DOMAIN pieces |->
            IF i = 1 THEN toLowerCase(pieces[i]) ELSE capitalize(pieces[i])],
         <<>>)

\* line 29: value.split(/;/gu).map(part => part.trim())
partsOf(value) ==
  LET raw == split(value, ";") IN [i \in DOMAIN raw |-> trim(raw[i])]

\* line 86: value || true
valueOrTrue(partValue) ==
  IF partValue # <<>>
    THEN [isTrue |-> FALSE, text |-> partValue]
    ELSE [isTrue |-> TRUE, text |-> <<>>]

\* a variant of line 69 that asks for the exact key "processed" (or "processed/...")
isModifierKeyExact(partKey) ==
  split(partKey, "/")[1] = sProcessed \/ startsWith(partKey, sFailed)

\* line 69: the test that makes a segment a processed/failed modifier
isModifierKey(partKey) ==
  startsWith(partKey, sProcessed) \/ startsWith(partKey, sFailed)

\* line 85: result.attributes[key] !== undefined, for an attributes object
\* that started as {} and holds the own properties attrs
hasProperty(attrs, partKey) ==
  partKey \in objectPrototypeNames \/ \E a \in attrs : a.key = partKey

\* lines 61-87: one iteration of the loop over parts.slice(1)
dispositionPart(result, part) ==
  LET found == indexOf(part, "=")
      index == IF found = 0 - 1 THEN Len(part) ELSE found
      partKey == toLowerCase(trim(slice(part, 0, index)))
      partValue == trim(sliceFrom(part, index + 1))
  IN
    IF isModifierKey(partKey)
      THEN
        LET halves == split(partKey, "/")
            attrKey == halves[1]
            attrProp == at(halves, 1)
        IN [result EXCEPT
              !.processed = Some(attrKey = sProcessed),
              !.description =
                 IF isDefined(attrProp)
                   THEN Some([type |-> toLowerCase(valOf(attrProp)),
                              text |-> partValue])
                   ELSE @]
      ELSE
        LET attrs == IF isDefined(result.attributes)
                       THEN valOf(result.attributes) ELSE {}
        IN [result EXCEPT
              !.attributes =
                 Some(IF hasProperty(attrs, partKey)
                        THEN attrs
                        ELSE attrs \cup
                               {[key |-> partKey, val |-> valueOrTrue(partValue)]})]

\* lines 60-88: the loop over parts.slice(1)
RECURSIVE dispositionLoop(_, _)
dispositionLoop(result, parts) ==
  IF parts = <<>>
    THEN result
    ELSE dispositionLoop(dispositionPart(result, Head(parts)), Tail(parts))

\* lines 54-90
decodeDisposition(value) ==
  LET parts == partsOf(value)
      first == split(parts[1], "/")
  IN dispositionLoop(
       [kind |-> "disposition",
        value |-> at(first, 1),
        type |-> at(first, 0),
        processed |-> undefined,
        description |-> undefined,
        attributes |-> undefined],
       Tail(parts))

\* lines 48-53
decodeRecipient(value) ==
  LET parts == partsOf(value) IN
    [kind |-> "recipient",
     value |-> join(Tail(parts), <<";", " ">>),
     type |-> parts[1]]

\* a variant of lines 98-99 that files the value under newKey(key)
decodeDefaultCanonical(key, value) ==
  [threw |-> FALSE,
   key |-> sHeaders,
   result |-> [kind |-> "headers", name |-> Some(newKey(key)), value |-> Some(value)]]

\* lines 98-99: result[key] = value; key = 'headers'.  The result is the
\* object with the one property name: value; assigning a string to __proto__
\* of the object literal {} adds no property and leaves it empty.
decodeDefault(key, value) ==
  [threw |-> FALSE,
   key |-> sHeaders,
   result |-> IF key = sProto
                THEN [kind |-> "headers", name |-> undefined, value |-> undefined]
                ELSE [kind |-> "headers", name |-> Some(key), value |-> Some(value)]]

\* lines 24-104; threw models the TypeError of micalg.toLowerCase() at line 94
toNotification(key, value) ==
  LET lower == toLowerCase(key) IN
    IF lower \in {sReportingUa, sMdnGateway, sOriginalMessageId}
      THEN [threw |-> FALSE, key |-> newKey(key),
            result |-> [kind |-> "string", str |-> value]]
    ELSE IF lower \in {sOriginalRecipient, sFinalRecipient}
      THEN [threw |-> FALSE, key |-> newKey(key), result |-> decodeRecipient(value)]
    ELSE IF lower = sDisposition
      THEN [threw |-> FALSE, key |-> newKey(key), result |-> decodeDisposition(value)]
    ELSE IF lower = sReceivedContentMic
      THEN
        LET pair == split(value, ",")
            micValue == trim(pair[1])
            micalg == IF Len(pair) > 1 THEN Some(trim(pair[2])) ELSE undefined
        IN IF isDefined(micalg)
             THEN [threw |-> FALSE, key |-> newKey(key),
                   result |-> [kind |-> "mic", mic |-> micValue,
                               algorithm |-> toLowerCase(valOf(micalg))]]
             ELSE [threw |-> TRUE, key |-> key, result |-> [kind |-> "TypeError"]]
    ELSE decodeDefault(key, value)

-----------------------------------------------------------------------------
(* Inputs of the decoder.                                                  *)

\* a field name that none of the cases of the switch recognises
sCustom == <<"x","-","m","y","-","i","d">>

fieldNames ==
  {sReportingUa, sMdnGateway, sOriginalMessageId, sOriginalRecipient,
   sFinalRecipient, sDisposition, sReceivedContentMic, sCustom, sProto}

\* the sets of at most n positions of string s
RECURSIVE positions(_, _)
positions(s, n) ==
  IF n = 0
    THEN {{}}
    ELSE positions(s, n - 1) \cup
           {U \cup {i} : U \in positions(s, n - 1), i \in DOMAIN s}

\* s with the characters at the positions U in upper case
cased(s, U) == [i \in DOMAIN s |-> IF i \in U THEN upperChar(s[i]) ELSE s[i]]

\* every field name in lower case, with up to MaxUpper capitals, and in capitals
casedNames ==
  UNION {{cased(n, U) : U \in positions(n, MaxUpper)} \cup {toUpperCase(n)}
           : n \in fieldNames}

simpleValues ==
  {<<"r","f","c","8","2","2",";"," ","a","@","b">>,
   <<"a","b","=","=",","," ","S","H","A","1">>,
   <<"a","b">>,
   <<"a","/","p",";"," ","x","=","1",";"," ","y",";"," ","x","=","2">>}

\* the modifier keys and the "=value" suffixes a Disposition segment is written from
segmentKeys ==
  {<<"p","r","o","c","e","s","s","e","d">>,
   <<"p","r","o","c","e","s","s","e","d","/","e","r","r","o","r">>,
   <<"p","r","o","c","e","s","s","e","d","-","x">>,
   <<"c","o","n","s","t","r","u","c","t","o","r">>,
   <<"f","a","i","l","e","d","/","F","a","i","l","u","r","e">>,
   <<"x">>,
   <<"X">>}

segmentValues ==
  {[eq |-> FALSE, text |-> <<>>],
   [eq |-> TRUE, text |-> <<>>],
   [eq |-> TRUE, text |-> <<"v">>],
   [eq |-> TRUE, text |-> <<" ", "w">>]}

segments ==
  {[key |-> k, eq |-> v.eq, text |-> v.text] : k \in segmentKeys, v \in segmentValues}

RECURSIVE segmentSeqs(_)
segmentSeqs(n) ==
  IF n = 0
    THEN {<<>>}
    ELSE segmentSeqs(n - 1) \cup
           {Append(q, g) : q \in {r \in segmentSeqs(n - 1) : Len(r) = n - 1},
                           g \in segments}

\* the text of one segment, as it stands after a ";"
segmentText(g) ==
  <<" ">> \o g.key \o (IF g.eq THEN <<"=">> \o g.text ELSE <<>>)

\* the Disposition value "a/p; seg1; seg2 ..."
RECURSIVE dispositionText(_)
dispositionText(q) ==
  IF q = <<>>
    THEN <<"a", "/", "p">>
    ELSE dispositionText(SubSeq(q, 1, Len(q) - 1)) \o <<";">> \o segmentText(q[Len(q)])

-----------------------------------------------------------------------------
(* The decoder applied to an input.                                        *)

noReturn == [threw |-> FALSE, key |-> <<>>, result |-> [kind |-> "none"]]

CodecIdle ==
  /\ cpc = "idle"
  /\ fieldKey = <<>>
  /\ fieldValue = <<>>
  /\ segs = <<>>
  /\ ret = noReturn

CodecInit ==
  /\ cpc = "call"
  /\ ret = noReturn
  /\ \/ /\ fieldKey \in casedNames
        /\ fieldValue \in simpleValues
        /\ segs = <<>>
     \/ /\ fieldKey = cased(sDisposition, {1})
        /\ segs \in segmentSeqs(MaxSegs)
        /\ fieldValue = dispositionText(segs)

\* parseHeaderString hands one header line to the callback toNotification
Decode ==
  /\ cpc = "call"
  /\ ret' = toNotification(fieldKey, fieldValue)
  /\ cpc' = "ret"
  /\ UNCHANGED <<fieldKey, fieldValue, segs, heap, outVars, inVars, cryptoVars>>

CodecNext == Decode

-----------------------------------------------------------------------------
(* MIME nodes.  A node is known by its id; heap holds the fields the       *)
(* module reads or writes.                                                 *)

\* the nodes of a call of outgoing: the message and its envelope, the nodes
\* decrypt, verify and sign return, and the three nodes toMimeNode creates
outgoingNodeIds ==
  {"env", "msg", "dec", "ver", "mdnRoot", "mdnText", "mdnNotif", "signedMdn"}

\* the nodes of the trees a call of incoming may be given
incomingNodeIds ==
  {"rep", "repText", "repNotif", "repOrig", "plain",
   "wrap", "inner", "innerText", "innerNotif", "sig", "short", "shortText"}

blankNode ==
  [parentNode |-> undefined, childNodes |-> <<>>, as2To |-> undefined,
   messageId |-> undefined, contentType |-> "", text |-> <<>>,
   lines |-> <<>>, notif |-> undefined]

noNodes == heap = <<>>

\* MimeNode.appendChild as called at lines 163, 169 and 176: the child becomes
\* the last of the parent's childNodes and the parent becomes its parentNode
appendChild(h, parent, child) ==
  [h EXCEPT ![parent].childNodes = Append(@, child),
            ![child].parentNode = Some(parent)]

-----------------------------------------------------------------------------
(* Constants the module imports from ERROR and EXPLANATION.               *)

DISPOSITION_NODE == "ERROR.DISPOSITION_NODE"
FINAL_RECIPIENT_MISSING == "ERROR.FINAL_RECIPIENT_MISSING"
CONTENT_VERIFY == "ERROR.CONTENT_VERIFY"
SUCCESS == "EXPLANATION.SUCCESS"
FAILED_DECRYPTION == "EXPLANATION.FAILED_DECRYPTION"
FAILED_GENERALLY == "EXPLANATION.FAILED_GENERALLY"
FAILED_VERIFICATION == "EXPLANATION.FAILED_VERIFICATION"

-----------------------------------------------------------------------------
(* Outcomes of the asynchronous crypto calls.  A call that is rejected     *)
(* (wrong key, malformed input, a timeout imposed around it) throws an     *)
(* Error carrying a message.                                               *)

errorMessages == {<<"e", i>> : i \in 1..MaxMessages}

thrown(message) == [kind |-> "throw", message |-> message, node |-> undefined]
resolved(node) == [kind |-> "return", message |-> <<>>, node |-> node]

throws == {thrown(m) : m \in errorMessages}

\* rootNode.decrypt(options.encrypted): a new node, or a thrown Error
decryptOutcomes == {resolved(Some("dec"))} \cup throws

\* rootNode.verify(options.signed): a new node, undefined, or a thrown Error
verifyOutcomes == {resolved(Some("ver")), resolved(undefined)} \cup throws

\* mdn.toMimeNode().sign(options.signDisposition): a new node, or a thrown Error
signOutcomes == {resolved(Some("signedMdn"))} \cup throws

call(op, receiver, outcome) == [op |-> op, on |-> receiver, outcome |-> outcome]

-----------------------------------------------------------------------------
(* AS2Disposition constructor from options (lines 132-145) and toMimeNode  *)
(* (lines 157-180).                                                        *)

\* lines 132-140; the messageId is AS2MimeNode.generateMessageId()
dispositionFromOptions(opts) ==
  [messageId |-> Some("generated"),
   explanation |-> Some(opts.explanation),
   notification |-> Some(opts.notification),
   returned |-> opts.returned]

\* lines 157-180: the heap after the MDN tree is built from report rep
toMimeNode(h, rep) ==
  LET h0 == [h EXCEPT
               !["mdnRoot"] = [blankNode EXCEPT
                  !.contentType = "multipart/report; report-type=disposition-notification",
                  !.messageId = rep.messageId],
               !["mdnText"] = [blankNode EXCEPT
                  !.contentType = "text/plain",
                  !.text = valOf(rep.explanation)],
               !["mdnNotif"] = [blankNode EXCEPT
                  !.contentType = "message/disposition-notification",
                  !.notif = rep.notification]]
      h1 == appendChild(h0, "mdnRoot", "mdnText")
      h2 == appendChild(h1, "mdnRoot", "mdnNotif")
  IN IF isDefined(rep.returned)
       THEN appendChild(h2, "mdnRoot", valOf(rep.returned))
       ELSE h2

-----------------------------------------------------------------------------
(* AS2Disposition.outgoing (lines 186-257).                                *)

optionBags == {undefined, Some("opts")}

\* the business message: alone or a part of an envelope, with or without As2-To
sourceHeaps ==
  {[[n \in outgoingNodeIds |-> blankNode] EXCEPT
      !["msg"].as2To = to,
      !["msg"].contentType = "application/edi",
      !["msg"].parentNode = IF inEnvelope THEN Some("env") ELSE undefined,
      !["env"].childNodes = IF inEnvelope THEN <<"msg">> ELSE <<>>]
     : to \in {undefined, Some("partner")}, inEnvelope \in BOOLEAN}

noNotification ==
  [finalRecipient |-> undefined,
   disposition |-> [processed |-> TRUE, type |-> "", description |-> undefined]]

noSettlement == [kind |-> "pending", message |-> <<>>, node |-> undefined]

OutgoingIdle ==
  /\ opc = "idle"
  /\ options = [node |-> undefined, returnNode |-> FALSE, signDisposition |-> undefined,
                signed |-> undefined, encrypted |-> undefined]
  /\ rootNode = undefined
  /\ errored = FALSE
  /\ explanation = ""
  /\ notification = noNotification
  /\ mdn = undefined
  /\ settled = noSettlement
  /\ calls = <<>>

OutgoingInit ==
  /\ opc = "enter"
  /\ heap \in sourceHeaps
  /\ options \in [node : {undefined, Some("msg")},
                  returnNode : BOOLEAN,
                  signDisposition : optionBags,
                  signed : optionBags,
                  encrypted : optionBags]
  /\ rootNode = undefined
  /\ errored = FALSE
  /\ explanation = ""
  /\ notification = noNotification
  /\ mdn = undefined
  /\ settled = noSettlement
  /\ calls = <<>>

\* a variant of lines 189-206 without the check of line 204
OutgoingEnterNoRecipientCheck ==
  /\ opc = "enter"
  /\ IF ~isDefined(options.node)
       THEN /\ opc' = "thrown"
            /\ settled' = thrown(DISPOSITION_NODE)
            /\ UNCHANGED <<rootNode, explanation, notification>>
       ELSE /\ notification' =
                 [finalRecipient |-> heap[valOf(options.node)].as2To,
                  disposition |-> [processed |-> TRUE, type |-> "automatic-action",
                                   description |-> undefined]]
            /\ explanation' = SUCCESS
            /\ rootNode' = options.node
            /\ opc' = "decrypt"
            /\ UNCHANGED settled
  /\ errored' = FALSE
  /\ UNCHANGED <<heap, options, mdn, calls, codecVars, inVars, cryptoVars>>

\* lines 189-206
OutgoingEnter ==
  /\ opc = "enter"
  /\ IF ~isDefined(options.node)
       THEN /\ opc' = "thrown"
            /\ settled' = thrown(DISPOSITION_NODE)
            /\ UNCHANGED <<rootNode, explanation, notification>>
       ELSE /\ notification' =
                 [finalRecipient |-> heap[valOf(options.node)].as2To,
                  disposition |-> [processed |-> TRUE, type |-> "automatic-action",
                                   description |-> undefined]]
            /\ explanation' = SUCCESS
            /\ rootNode' = options.node
            /\ IF ~isDefined(notification'.finalRecipient)
                 THEN opc' = "thrown" /\ settled' = thrown(FINAL_RECIPIENT_MISSING)
                 ELSE opc' = "decrypt" /\ UNCHANGED settled
  /\ errored' = FALSE
  /\ UNCHANGED <<heap, options, mdn, calls, codecVars, inVars, cryptoVars>>

\* lines 212-218, 226-232 and 236-242: what a failure writes into the locals
failure(text, why) ==
  /\ errored' = TRUE
  /\ notification' =
       [notification EXCEPT
          !.disposition.processed = FALSE,
          !.disposition.description = Some([type |-> "failure", text |-> text])]
  /\ explanation' = why

\* a variant of lines 208-220 whose catch block leaves errored false
OutgoingDecryptNotErrored ==
  /\ opc = "decrypt"
  /\ IF isDefined(options.encrypted)
       THEN \E o \in decryptOutcomes :
              /\ calls' = Append(calls, call("decrypt", rootNode, o))
              /\ IF o.kind = "return"
                   THEN /\ rootNode' = o.node
                        /\ UNCHANGED <<errored, notification, explanation>>
                   ELSE /\ notification' =
                             [notification EXCEPT
                                !.disposition.processed = FALSE,
                                !.disposition.description =
                                   Some([type |-> "failure", text |-> o.message])]
                        /\ explanation' = FAILED_DECRYPTION
                        /\ UNCHANGED <<errored, rootNode>>
       ELSE UNCHANGED <<calls, rootNode, errored, notification, explanation>>
  /\ opc' = "verify"
  /\ UNCHANGED <<heap, options, mdn, settled, codecVars, inVars, cryptoVars>>

\* lines 208-220
OutgoingDecrypt ==
  /\ opc = "decrypt"
  /\ IF isDefined(options.encrypted)
       THEN \E o \in decryptOutcomes :
              /\ calls' = Append(calls, call("decrypt", rootNode, o))
              /\ IF o.kind = "return"
                   THEN /\ rootNode' = o.node
                        /\ UNCHANGED <<errored, notification, explanation>>
                   ELSE /\ failure(o.message, FAILED_DECRYPTION)
                        /\ UNCHANGED rootNode
       ELSE UNCHANGED <<calls, rootNode, errored, notification, explanation>>
  /\ opc' = "verify"
  /\ UNCHANGED <<heap, options, mdn, settled, codecVars, inVars, cryptoVars>>

\* a variant of lines 222-244 that verifies only when nothing was to be decrypted
OutgoingVerifyElseBranch ==
  /\ opc = "verify"
  /\ IF isDefined(options.signed) /\ ~errored /\ ~isDefined(options.encrypted)
       THEN \E o \in verifyOutcomes :
              /\ calls' = Append(calls, call("verify", rootNode, o))
              /\ IF o.kind = "throw"
                   THEN /\ failure(o.message, FAILED_GENERALLY)
                        /\ UNCHANGED rootNode
                   ELSE /\ rootNode' = o.node
                        /\ IF ~isDefined(o.node)
                             THEN failure(<<"Could not verify signature">>,
                                          FAILED_VERIFICATION)
                             ELSE UNCHANGED <<errored, notification, explanation>>
       ELSE UNCHANGED <<calls, rootNode, errored, notification, explanation>>
  /\ opc' = "build"
  /\ UNCHANGED <<heap, options, mdn, settled, codecVars, inVars, cryptoVars>>

\* a variant of lines 222-244 without the try/catch around verify
OutgoingVerifyNoCatch ==
  /\ opc = "verify"
  /\ IF isDefined(options.signed) /\ ~errored
       THEN \E o \in verifyOutcomes :
              /\ calls' = Append(calls, call("verify", rootNode, o))
              /\ IF o.kind = "throw"
                   THEN /\ opc' = "thrown"
                        /\ settled' = o
                        /\ UNCHANGED <<rootNode, errored, notification, explanation>>
                   ELSE /\ rootNode' = o.node
                        /\ opc' = "build"
                        /\ UNCHANGED settled
                        /\ IF ~isDefined(o.node)
                             THEN failure(<<"Could not verify signature">>,
                                          FAILED_VERIFICATION)
                             ELSE UNCHANGED <<errored, notification, explanation>>
       ELSE /\ opc' = "build"
            /\ UNCHANGED <<calls, rootNode, errored, notification, explanation, settled>>
  /\ UNCHANGED <<heap, options, mdn, codecVars, inVars, cryptoVars>>

\* lines 222-244
OutgoingVerify ==
  /\ opc = "verify"
  /\ IF isDefined(options.signed) /\ ~errored
       THEN \E o \in verifyOutcomes :
              /\ calls' = Append(calls, call("verify", rootNode, o))
              /\ IF o.kind = "throw"
                   THEN /\ failure(o.message, FAILED_GENERALLY)
                        /\ UNCHANGED rootNode
                   ELSE /\ rootNode' = o.node
                        /\ IF ~isDefined(o.node)
                             THEN failure(<<"Could not verify signature">>,
                                          FAILED_VERIFICATION)
                             ELSE UNCHANGED <<errored, notification, explanation>>
       ELSE UNCHANGED <<calls, rootNode, errored, notification, explanation>>
  /\ opc' = "build"
  /\ UNCHANGED <<heap, options, mdn, settled, codecVars, inVars, cryptoVars>>

\* lines 246-250
OutgoingBuild ==
  /\ opc = "build"
  /\ mdn' = Some(dispositionFromOptions(
               [explanation |-> explanation,
                notification |-> notification,
                returned |-> IF options.returnNode THEN options.node ELSE undefined]))
  /\ opc' = "return"
  /\ UNCHANGED <<heap, options, rootNode, errored, explanation, notification,
                 settled, calls, codecVars, inVars, cryptoVars>>

\* lines 252-256
OutgoingReturn ==
  /\ opc = "return"
  /\ heap' = toMimeNode(heap, valOf(mdn))
  /\ IF isDefined(options.signDisposition)
       THEN \E o \in signOutcomes :
              /\ calls' = Append(calls, call("sign", Some("mdnRoot"), o))
              /\ IF o.kind = "return"
                   THEN opc' = "done" /\ settled' = o
                   ELSE opc' = "thrown" /\ settled' = o
       ELSE /\ opc' = "done"
            /\ settled' = resolved(Some("mdnRoot"))
            /\ UNCHANGED calls
  /\ UNCHANGED <<options, rootNode, errored, explanation, notification, mdn,
                 codecVars, inVars, cryptoVars>>

OutgoingNext ==
  \/ OutgoingEnter
  \/ OutgoingDecrypt
  \/ OutgoingVerify
  \/ OutgoingBuild
  \/ OutgoingReturn


-----------------------------------------------------------------------------
(* AS2Disposition constructor from a MIME node (lines 109-131).            *)

REPORT == "multipart/report; report-type=disposition-notification"

\* getReportNode (imported from ../Helpers): the first node of the tree, in
\* document order, whose content type is multipart/report; undefined if none
RECURSIVE getReportNode(_, _)
RECURSIVE firstReportNode(_, _)
getReportNode(h, id) ==
  IF h[id].contentType = REPORT
    THEN Some(id)
    ELSE firstReportNode(h, h[id].childNodes)

firstReportNode(h, ids) ==
  IF ids = <<>>
    THEN undefined
    ELSE LET found == getReportNode(h, Head(ids))
         IN IF isDefined(found) THEN found ELSE firstReportNode(h, Tail(ids))

\* parseHeaderString(content, toNotification) (imported from ../Helpers): the
\* callback's [key, value] for every header line of the content
parseHeaderString(lines) ==
  [i \in DOMAIN lines |-> toNotification(lines[i].key, lines[i].value)]

emptyReport ==
  [messageId |-> undefined, explanation |-> undefined,
   notification |-> undefined, returned |-> undefined]

constructorThrew(what) == [threw |-> TRUE, error |-> what, report |-> emptyReport]

\* lines 109-131
dispositionFromNode(h, id) ==
  LET messageId == h[id].messageId
      reportNode == getReportNode(h, id)
  IN IF isDefined(reportNode)
       THEN
         LET childNodes == h[valOf(reportNode)].childNodes
             parsed == parseHeaderString(h[childNodes[2]].lines)
         IN IF Len(childNodes) < 2
              THEN constructorThrew(<<"TypeError">>)
            ELSE IF \E i \in DOMAIN parsed : parsed[i].threw
              THEN constructorThrew(<<"TypeError">>)
            ELSE [threw |-> FALSE, error |-> <<>>,
                  report |-> [messageId |-> messageId,
                              explanation |-> Some(trim(h[childNodes[1]].text)),
                              notification |-> Some(parsed),
                              returned |-> at(childNodes, 2)]]
       ELSE [threw |-> FALSE, error |-> <<>>, report |-> emptyReport]

-----------------------------------------------------------------------------
(* AS2Disposition.incoming (lines 264-283).                                *)

goodLines ==
  <<[key |-> <<"D","i","s","p","o","s","i","t","i","o","n">>,
     value |-> <<"a","/","p",";"," ","p","r","o","c","e","s","s","e","d">>],
    [key |-> <<"F","i","n","a","l","-","R","e","c","i","p","i","e","n","t">>,
     value |-> <<"r","f","c","8","2","2",";"," ","a","@","b">>]>>

failedLines ==
  <<[key |-> <<"D","i","s","p","o","s","i","t","i","o","n">>,
     value |-> <<"a","/","p",";"," ","f","a","i","l","e","d","/","f","a","i","l","u","r","e","=","o","o","p","s">>],
    [key |-> <<"R","e","c","e","i","v","e","d","-","C","o","n","t","e","n","t","-","M","I","C">>,
     value |-> <<"a","b","=","=",","," ","s","h","a","1">>]>>

\* a Received-Content-MIC without a comma
malformedLines ==
  <<[key |-> <<"R","e","c","e","i","v","e","d","-","C","o","n","t","e","n","t","-","M","I","C">>,
     value |-> <<"a","b","=","=">>]>>

incomingRoots == {"rep", "plain", "wrap", "short"}

\* the MIME trees an incoming call may be given or verify may return: an MDN
\* (with or without the returned message), a node without a report, an MDN
\* inside a signed envelope, and a report with a single part
incomingHeaps ==
  {[[n \in incomingNodeIds |-> blankNode] EXCEPT
      !["rep"] = [blankNode EXCEPT !.contentType = REPORT,
                    !.messageId = Some("<rep>"),
                    !.childNodes = IF withOriginal
                                     THEN <<"repText", "repNotif", "repOrig">>
                                     ELSE <<"repText", "repNotif">>],
      !["repText"] = [blankNode EXCEPT !.contentType = "text/plain",
                        !.parentNode = Some("rep"),
                        !.text = <<" ","d","o","n","e"," ">>],
      !["repNotif"] = [blankNode EXCEPT
                         !.contentType = "message/disposition-notification",
                         !.parentNode = Some("rep"),
                         !.lines = lines],
      !["repOrig"] = [blankNode EXCEPT !.contentType = "application/edi",
                        !.parentNode = IF withOriginal THEN Some("rep") ELSE undefined],
      !["plain"] = [blankNode EXCEPT !.contentType = "text/plain",
                      !.messageId = Some("<plain>"),
                      !.text = <<"h","e","l","l","o">>],
      !["wrap"] = [blankNode EXCEPT !.contentType = "multipart/signed",
                     !.messageId = Some("<wrap>"),
                     !.childNodes = <<"inner", "sig">>],
      !["inner"] = [blankNode EXCEPT !.contentType = REPORT,
                      !.parentNode = Some("wrap"),
                      !.childNodes = <<"innerText", "innerNotif">>],
      !["innerText"] = [blankNode EXCEPT !.contentType = "text/plain",
                          !.parentNode = Some("inner"),
                          !.text = <<"i","n","n","e","r">>],
      !["innerNotif"] = [blankNode EXCEPT
                           !.contentType = "message/disposition-notification",
                           !.parentNode = Some("inner"),
                           !.lines = goodLines],
      !["sig"] = [blankNode EXCEPT !.contentType = "application/pkcs7-signature",
                    !.parentNode = Some("wrap")],
      !["short"] = [blankNode EXCEPT !.contentType = REPORT,
                      !.messageId = Some("<short>"),
                      !.childNodes = <<"shortText">>],
      !["shortText"] = [blankNode EXCEPT !.contentType = "text/plain",
                          !.parentNode = Some("short")]]
     : withOriginal \in BOOLEAN,
       lines \in {goodLines, failedLines, malformedLines}}

\* node.verify(signed): another node, undefined, or a thrown Error
incomingVerifyOutcomes(node) ==
  {resolved(Some(r)) : r \in incomingRoots \ {node}}
    \cup {resolved(undefined)} \cup throws

noReport == [kind |-> "pending", message |-> <<>>, report |-> emptyReport]
rejected(message) == [kind |-> "throw", message |-> message, report |-> emptyReport]
fulfilled(report) == [kind |-> "return", message |-> <<>>, report |-> report]

IncomingIdle ==
  /\ ipc = "idle"
  /\ inNode = undefined
  /\ inSigned = undefined
  /\ inRootNode = undefined
  /\ inCalls = <<>>
  /\ constructed = undefined
  /\ inSettled = noReport

IncomingInit ==
  /\ ipc = "enter"
  /\ heap \in incomingHeaps
  /\ inNode \in {undefined} \cup {Some(r) : r \in incomingRoots}
  /\ inSigned \in optionBags
  /\ inRootNode = undefined
  /\ inCalls = <<>>
  /\ constructed = undefined
  /\ inSettled = noReport

\* lines 268-272
IncomingEnter ==
  /\ ipc = "enter"
  /\ inRootNode' = inNode
  /\ IF ~isDefined(inNode)
       THEN ipc' = "thrown" /\ inSettled' = rejected(DISPOSITION_NODE)
       ELSE ipc' = "verify" /\ UNCHANGED inSettled
  /\ UNCHANGED <<inNode, inSigned, inCalls, constructed, heap, codecVars, outVars, cryptoVars>>

\* lines 274-280
IncomingVerify ==
  /\ ipc = "verify"
  /\ IF isDefined(inSigned)
       THEN \E o \in incomingVerifyOutcomes(valOf(inNode)) :
              /\ inCalls' = Append(inCalls, call("verify", inNode, o))
              /\ IF o.kind = "throw"
                   THEN /\ ipc' = "thrown"
                        /\ inSettled' = rejected(o.message)
                        /\ UNCHANGED inRootNode
                   ELSE /\ inRootNode' = o.node
                        /\ IF ~isDefined(o.node)
                             THEN /\ ipc' = "thrown"
                                  /\ inSettled' = rejected(CONTENT_VERIFY)
                             ELSE /\ ipc' = "construct"
                                  /\ UNCHANGED inSettled
       ELSE /\ ipc' = "construct"
            /\ UNCHANGED <<inCalls, inRootNode, inSettled>>
  /\ UNCHANGED <<inNode, inSigned, constructed, heap, codecVars, outVars, cryptoVars>>

\* what line 282 does with the node it is given
construct(node) ==
  /\ constructed' = node
  /\ LET made == dispositionFromNode(heap, valOf(node)) IN
       IF made.threw
         THEN ipc' = "thrown" /\ inSettled' = rejected(made.error)
         ELSE ipc' = "done" /\ inSettled' = fulfilled(made.report)

\* a variant of line 282 that parses the node the caller passed
IncomingConstructFromNode ==
  /\ ipc = "construct"
  /\ construct(inNode)
  /\ UNCHANGED <<inNode, inSigned, inRootNode, inCalls, heap, codecVars, outVars, cryptoVars>>

\* line 282
IncomingConstruct ==
  /\ ipc = "construct"
  /\ construct(inRootNode)
  /\ UNCHANGED <<inNode, inSigned, inRootNode, inCalls, heap, codecVars, outVars, cryptoVars>>

IncomingNext ==
  \/ IncomingEnter
  \/ IncomingVerify
  \/ IncomingConstruct


-----------------------------------------------------------------------------
(* AS2Crypto.compress and AS2Crypto.decompress, as the test at             *)
(* src/test/helpers.ts lines 119-122 calls them.                           *)

NOT_IMPLEMENTED == <<"ERROR.NOT_IMPLEMENTED">>

\* a variant of compress that hands the node back
compressNoOp(node, opts) == resolved(Some(node))

\* AS2Crypto.compress(node, options): always rejected
compress(node, opts) == thrown(NOT_IMPLEMENTED)

\* AS2Crypto.decompress(node, options): always rejected
decompress(node, opts) == thrown(NOT_IMPLEMENTED)

compressionOptions == {"none", "zlib", "level9"}

CryptoIdle ==
  /\ zpc = "idle"
  /\ zOp = ""
  /\ zNode = ""
  /\ zOptions = "none"
  /\ zSettled = noSettlement

CryptoInit ==
  /\ zpc = "call"
  /\ zOp = ""
  /\ heap \in incomingHeaps
  /\ zNode \in incomingRoots \cup {"repNotif", "inner"}
  /\ zOptions \in compressionOptions
  /\ zSettled = noSettlement

Compress ==
  /\ zpc = "call"
  /\ zOp' = "compress"
  /\ zSettled' = compress(zNode, zOptions)
  /\ zpc' = "settled"
  /\ UNCHANGED <<zNode, zOptions, heap, codecVars, outVars, inVars>>

Decompress ==
  /\ zpc = "call"
  /\ zOp' = "decompress"
  /\ zSettled' = decompress(zNode, zOptions)
  /\ zpc' = "settled"
  /\ UNCHANGED <<zNode, zOptions, heap, codecVars, outVars, inVars>>

CryptoNext ==
  \/ Compress
  \/ Decompress

-----------------------------------------------------------------------------
(* The specifications: one call of each operation, from every input.       *)

InitOutgoing == OutgoingInit /\ CodecIdle /\ IncomingIdle /\ CryptoIdle

SpecOutgoing == InitOutgoing /\ [][OutgoingNext]_vars

InitIncoming == IncomingInit /\ CodecIdle /\ OutgoingIdle /\ CryptoIdle

SpecIncoming == InitIncoming /\ [][IncomingNext]_vars

InitCodec == CodecInit /\ noNodes /\ OutgoingIdle /\ IncomingIdle /\ CryptoIdle

InitCrypto == CryptoInit /\ CodecIdle /\ OutgoingIdle /\ IncomingIdle

SpecCrypto == InitCrypto /\ [][CryptoNext]_vars

SpecCodec == InitCodec /\ [][CodecNext]_vars

-----------------------------------------------------------------------------
(* Properties of the Disposition decoder, stated over the segments the     *)
(* input was written from.                                                 *)

segKey(g) == toLowerCase(trim(g.key))
segBase(g) == split(segKey(g), "/")[1]
segHasSuffix(g) == indexOf(segKey(g), "/") # 0 - 1
segSuffix(g) == split(segKey(g), "/")[2]
segValue(g) == trim(g.text)

\* the key is `processed` (with or without a /-suffix) or starts with `failed`
keyIsProcessedOrStartsFailed(g) ==
  segBase(g) = sProcessed \/ startsWith(segKey(g), sFailed)

\* the key starts with `processed` or starts with `failed`
keyStartsProcessedOrFailed(g) ==
  startsWith(segKey(g), sProcessed) \/ startsWith(segKey(g), sFailed)

\* attribute names an object has before anything is stored in it
inheritedName(k) == k \in {sConstructor, sProto}

\* the decoded fields the rule prescribes for the segments q, given which
\* segments count as processed/failed modifiers
ruleProcessed(q, mods) ==
  IF mods = {}
    THEN undefined
    ELSE LET last == CHOOSE i \in mods : \A j \in mods : j <= i
         IN Some(segBase(q[last]) = sProcessed)

ruleDescription(q, mods) ==
  LET suffixed == {i \in mods : segHasSuffix(q[i])} IN
    IF suffixed = {}
      THEN undefined
      ELSE LET last == CHOOSE i \in suffixed : \A j \in suffixed : j <= i
           IN Some([type |-> toLowerCase(segSuffix(q[last])),
                    text |-> segValue(q[last])])

ruleAttributes(q, mods) ==
  LET others == DOMAIN q \ mods
      firsts == {i \in others :
                   /\ ~inheritedName(segKey(q[i]))
                   /\ \A j \in others : j < i => segKey(q[j]) # segKey(q[i])}
  IN IF others = {}
       THEN undefined
       ELSE Some({[key |-> segKey(q[i]),
                   val |-> IF segValue(q[i]) = <<>>
                             THEN [isTrue |-> TRUE, text |-> <<>>]
                             ELSE [isTrue |-> FALSE, text |-> segValue(q[i])]]
                    : i \in firsts})

followsRule(mods) ==
  /\ ret.threw = FALSE
  /\ ret.result.kind = "disposition"
  /\ ret.result.processed = ruleProcessed(segs, mods)
  /\ ret.result.description = ruleDescription(segs, mods)
  /\ ret.result.attributes = ruleAttributes(segs, mods)

decodedDisposition ==
  /\ cpc = "ret"
  /\ toLowerCase(fieldKey) = sDisposition
  /\ fieldValue = dispositionText(segs)

\* C9 (as stated): every segment after the first is decoded by the rule in which
\* a segment is a processed/failed modifier exactly when its key is `processed`
\* or starts with `failed`: such a segment sets processed (to key = "processed")
\* and, with a /-suffix, the description, and is never stored in attributes;
\* every other segment is stored in attributes unless the name is already
\* present there (own or inherited), first occurrence winning, with boolean
\* true for a missing value; without modifiers processed stays unset.
C9_AsClaimed ==
  decodedDisposition =>
    followsRule({i \in DOMAIN segs : keyIsProcessedOrStartsFailed(segs[i])})

\* C9 (amended): the same rule, in which a segment is a processed/failed
\* modifier exactly when its key STARTS WITH `processed` or starts with
\* `failed`; processed is set to whether the key before any "/" is exactly
\* "processed"; and an attribute is stored only if the attributes object has no
\* property of that name yet, own or inherited, so that `constructor` and
\* `__proto__` are never stored.
C9_DispositionRule ==
  decodedDisposition =>
    followsRule({i \in DOMAIN segs : keyStartsProcessedOrFailed(segs[i])})

\* a decoded value whose first segment's key starts with, but is not,
\* `processed`, followed by an attribute segment
C9_Witness ==
  /\ decodedDisposition
  /\ Len(segs) > 1
  /\ segKey(segs[1]) # sProcessed
  /\ startsWith(segKey(segs[1]), sProcessed)
  /\ ~segHasSuffix(segs[1])
  /\ ret.result.processed = Some(FALSE)
  /\ isDefined(ret.result.attributes)

-----------------------------------------------------------------------------
(* Properties of the keys the decoder returns.                             *)

\* the camelCase key of each field name
camelCaseOf(n) ==
  CASE n = sReportingUa -> <<"r","e","p","o","r","t","i","n","g","U","a">>
    [] n = sMdnGateway -> <<"m","d","n","G","a","t","e","w","a","y">>
    [] n = sOriginalMessageId -> <<"o","r","i","g","i","n","a","l","M","e","s","s","a","g","e","I","d">>
    [] n = sOriginalRecipient -> <<"o","r","i","g","i","n","a","l","R","e","c","i","p","i","e","n","t">>
    [] n = sFinalRecipient -> <<"f","i","n","a","l","R","e","c","i","p","i","e","n","t">>
    [] n = sDisposition -> <<"d","i","s","p","o","s","i","t","i","o","n">>
    [] n = sReceivedContentMic -> <<"r","e","c","e","i","v","e","d","C","o","n","t","e","n","t","M","i","c">>
    [] n = sCustom -> <<"x","M","y","I","d">>
    [] n = sProto -> sProto

recognised == fieldNames \ {sCustom, sProto}

decoderReturned == cpc = "ret" /\ ret.threw = FALSE

recognisedKeyIsCamelCase ==
  (decoderReturned /\ toLowerCase(fieldKey) \in recognised) =>
    ret.key = camelCaseOf(toLowerCase(fieldKey))

\* C10 (as stated): whatever the casing, a recognised field name is returned as
\* its camelCase key, and an unrecognised one is returned in the `headers`
\* bucket with the raw value under the name's camelCase key.
C10_AsClaimed ==
  /\ recognisedKeyIsCamelCase
  /\ (decoderReturned /\ toLowerCase(fieldKey) \notin recognised) =>
       /\ ret.key = sHeaders
       /\ fieldKey # sProto =>
            /\ ret.result.name = Some(camelCaseOf(toLowerCase(fieldKey)))
            /\ ret.result.value = Some(fieldValue)

\* C10 (amended): whatever the casing, a recognised field name is returned as
\* its camelCase key; an unrecognised one is returned in the `headers` bucket
\* with the raw value under the field name exactly as it was given, so two
\* casings of one unrecognised name are two different keys of the bucket (for
\* the name `__proto__` the bucket stays empty).
C10_Keys ==
  /\ recognisedKeyIsCamelCase
  /\ (decoderReturned /\ toLowerCase(fieldKey) \notin recognised) =>
       /\ ret.key = sHeaders
       /\ fieldKey # sProto => ret.result.name = Some(fieldKey)
       /\ fieldKey # sProto => ret.result.value = Some(fieldValue)
       /\ fieldKey = sProto => ret.result.name = undefined

\* an unrecognised name written with a capital has been decoded
C10_Witness ==
  /\ decoderReturned
  /\ toLowerCase(fieldKey) = sCustom
  /\ fieldKey # sCustom
  /\ ret.key = sHeaders

-----------------------------------------------------------------------------
(* Properties of AS2Disposition.outgoing.                                  *)

callsOf(op) == {i \in DOMAIN calls : calls[i].op = op}

threw(op) == \E i \in callsOf(op) : calls[i].outcome.kind = "throw"

messageOf(op) ==
  calls[CHOOSE i \in callsOf(op) : calls[i].outcome.kind = "throw"].outcome.message

verifyInconclusive ==
  \E i \in callsOf("verify") : calls[i].outcome = resolved(undefined)

\* options.node is present and carries its As2-To header
wellFormedCall ==
  /\ opc # "idle"
  /\ isDefined(options.node)
  /\ isDefined(heap[valOf(options.node)].as2To)

reportIs(why, processed, description) ==
  /\ valOf(mdn).explanation = Some(why)
  /\ valOf(valOf(mdn).notification).disposition.processed = processed
  /\ valOf(valOf(mdn).notification).disposition.description = description

failureText(text) == Some([type |-> "failure", text |-> text])

\* C1: the report's explanation, processed flag and description are fixed by
\* the first crypto step that fails: a decrypt that throws gives
\* FAILED_DECRYPTION with the error's message, whatever the signed options; a
\* verify that throws gives FAILED_GENERALLY with the error's message; a verify
\* that returns undefined gives FAILED_VERIFICATION with "Could not verify
\* signature"; with no failing step the report is SUCCESS, processed, and has
\* no description.
C1_ReportOutcome ==
  (wellFormedCall /\ isDefined(mdn)) =>
    IF threw("decrypt")
      THEN reportIs(FAILED_DECRYPTION, FALSE, failureText(messageOf("decrypt")))
    ELSE IF threw("verify")
      THEN reportIs(FAILED_GENERALLY, FALSE, failureText(messageOf("verify")))
    ELSE IF verifyInconclusive
      THEN reportIs(FAILED_VERIFICATION, FALSE,
                    failureText(<<"Could not verify signature">>))
    ELSE reportIs(SUCCESS, TRUE, undefined)

\* a report built after a decrypt that threw, in a call that had signed options
C1_Witness ==
  /\ wellFormedCall
  /\ isDefined(mdn)
  /\ threw("decrypt")
  /\ isDefined(options.signed)
  /\ valOf(mdn).explanation = Some(FAILED_DECRYPTION)

\* C2: without options.node the call throws DISPOSITION_NODE, and with a node
\* that has no As2-To header it throws FINAL_RECIPIENT_MISSING, at its first
\* step and whatever the other options are; no decrypt, verify or sign call is
\* made and no report or MDN node is built.
C2_CallerErrors ==
  (opc \notin {"idle", "enter"} /\ ~wellFormedCall) =>
    /\ opc = "thrown"
    /\ settled = thrown(IF isDefined(options.node)
                          THEN FINAL_RECIPIENT_MISSING ELSE DISPOSITION_NODE)
    /\ calls = <<>>
    /\ mdn = undefined
    /\ heap["mdnRoot"] = blankNode

\* a call with all the options and a node without As2-To has thrown
C2_Witness ==
  /\ opc = "thrown"
  /\ isDefined(options.node)
  /\ settled = thrown(FINAL_RECIPIENT_MISSING)
  /\ isDefined(options.encrypted)
  /\ isDefined(options.signed)
  /\ isDefined(options.signDisposition)
  /\ options.returnNode

settledWithMdn ==
  /\ opc = "done"
  /\ settled = resolved(Some(IF isDefined(options.signDisposition)
                               THEN "signedMdn" ELSE "mdnRoot"))
  /\ heap["mdnRoot"].childNodes # <<>>

\* C3 (as stated): a call with a node that carries its recipient header never
\* throws and always returns the MDN node, signed when signDisposition options
\* are given and unsigned otherwise.
C3_AsClaimed ==
  wellFormedCall =>
    /\ opc # "thrown"
    /\ opc = "done" => settledWithMdn

\* C3 (amended): in a call with a node that carries its recipient header, no
\* outcome of decrypt or verify (a node, a thrown Error, undefined) makes the
\* call throw: the report is always built and the call goes on to return the
\* MDN node, unsigned without signDisposition options and signed with them;
\* the only error the call can throw is the one thrown by the final sign call.
C3_PipelineNeverThrows ==
  wellFormedCall =>
    /\ opc = "thrown" =>
         /\ isDefined(options.signDisposition)
         /\ isDefined(mdn)
         /\ calls[Len(calls)] = call("sign", Some("mdnRoot"), settled)
    /\ opc = "done" => settledWithMdn
    /\ opc \notin {"done", "thrown"} => ENABLED OutgoingNext

\* a signed MDN was returned although decrypt threw
C3_Witness ==
  /\ wellFormedCall
  /\ threw("decrypt")
  /\ settledWithMdn
  /\ isDefined(options.signDisposition)

\* C4 (as stated): verify is called only when signed options are given,
\* encrypted options are not given and no failure is recorded; with encrypted
\* options verify is never called.
C4_AsClaimed ==
  \A i \in callsOf("verify") :
    /\ isDefined(options.signed)
    /\ ~isDefined(options.encrypted)
    /\ ~threw("decrypt")

\* C4 (amended): verification is a separate step after decryption: verify is
\* called exactly when signed options are given and no failure is recorded,
\* that is when encrypted options are absent or decrypt succeeded; after a
\* successful decrypt it is called on the decrypted node, and after a decrypt
\* that threw it is not called.
C4_VerifyAfterDecrypt ==
  /\ \A i \in callsOf("verify") :
       /\ isDefined(options.signed)
       /\ ~threw("decrypt")
       /\ callsOf("decrypt") \subseteq 1..(i - 1)
       /\ calls[i].on = IF isDefined(options.encrypted)
                          THEN Some("dec") ELSE options.node
  /\ (opc \in {"build", "return", "done", "thrown"} /\ wellFormedCall) =>
       (callsOf("verify") # {} <=> (isDefined(options.signed) /\ ~threw("decrypt")))
  /\ Cardinality(callsOf("verify")) <= 1

\* verify was called on the node that decrypt returned
C4_Witness ==
  /\ isDefined(options.encrypted)
  /\ \E i \in callsOf("verify") : calls[i].on = Some("dec")

\* the fields of the source node as the caller passed them in: a child of the
\* envelope when the envelope lists it, without children of its own
sourceUntouched ==
  /\ heap["msg"].parentNode =
       IF heap["env"].childNodes = <<"msg">> THEN Some("env") ELSE undefined
  /\ heap["msg"].childNodes = <<>>
  /\ heap["env"].parentNode = undefined
  /\ heap["env"].childNodes \in {<<>>, <<"msg">>}

\* C7: the source tree is only read, and the report shares no node with it:
\* with returnNode set, the report's returned node (the third child of the MDN
\* root) is not the node passed as options.node, and the source node's parent
\* and children are as they were.
C7_AsClaimed ==
  (wellFormedCall /\ options.returnNode) =>
    /\ isDefined(mdn) => valOf(mdn).returned # options.node
    /\ options.node \notin {Some(c) : c \in
                             {heap["mdnRoot"].childNodes[i] :
                                i \in DOMAIN heap["mdnRoot"].childNodes}}
    /\ sourceUntouched

-----------------------------------------------------------------------------
(* Properties of AS2Disposition.incoming and of the constructor.           *)

verifyReturned(i) == inCalls[i].op = "verify" /\ inCalls[i].outcome.kind = "return"

\* C5: incoming throws DISPOSITION_NODE when node is absent; with signed
\* options it calls verify on the node and, when that returns undefined,
\* throws CONTENT_VERIFY without constructing a report; without signed options
\* verify is never called and the report is parsed from the node as passed;
\* when verify returns a node the report is parsed from that node, not from
\* the original.
C5_Incoming ==
  /\ (ipc \notin {"idle", "enter"} /\ ~isDefined(inNode)) =>
       /\ ipc = "thrown"
       /\ inSettled = rejected(DISPOSITION_NODE)
       /\ inCalls = <<>>
       /\ constructed = undefined
  /\ (ipc \in {"construct", "done", "thrown"} /\ isDefined(inNode) /\ isDefined(inSigned)) =>
       /\ Len(inCalls) = 1
       /\ inCalls[1].op = "verify"
       /\ inCalls[1].on = inNode
  /\ \A i \in DOMAIN inCalls :
       (verifyReturned(i) /\ ~isDefined(inCalls[i].outcome.node)) =>
         /\ ipc = "thrown"
         /\ inSettled = rejected(CONTENT_VERIFY)
         /\ constructed = undefined
  /\ ~isDefined(inSigned) =>
       /\ inCalls = <<>>
       /\ ipc \in {"done", "thrown"} /\ isDefined(inNode) => constructed = inNode
  /\ \A i \in DOMAIN inCalls :
       (verifyReturned(i) /\ isDefined(inCalls[i].outcome.node)
          /\ ipc \in {"done", "thrown"}) =>
         /\ constructed = inCalls[i].outcome.node
         /\ constructed # inNode
         /\ ipc = "done" =>
              inSettled.report.messageId \in
                {undefined, heap[valOf(constructed)].messageId}

\* a report parsed from the node that verify returned
C5_Witness ==
  /\ ipc = "done"
  /\ Len(inCalls) = 1
  /\ verifyReturned(1)
  /\ constructed = inCalls[1].outcome.node
  /\ inNode = Some("wrap")
  /\ inSettled.report.messageId = Some("<rep>")

\* C6: a call of incoming either returns a report whose messageId, explanation
\* and notification are all set, or throws; in particular a node without a
\* multipart/report subtree does not yield a report with unset fields.
C6_AsClaimed ==
  ipc = "done" =>
    /\ inSettled.kind = "return"
    /\ isDefined(inSettled.report.messageId)
    /\ isDefined(inSettled.report.explanation)
    /\ isDefined(inSettled.report.notification)

-----------------------------------------------------------------------------
(* Properties of compress and decompress.                                  *)

\* C8: compress and decompress are rejected for every node and options bag;
\* neither resolves with a node.
C8_CompressionRejects ==
  zpc = "settled" =>
    /\ zSettled.kind = "throw"
    /\ zSettled.node = undefined

\* compress was called with options on an MDN and has settled
C8_Witness ==
  /\ zpc = "settled"
  /\ zOp = "compress"
  /\ zNode = "rep"
  /\ zOptions = "zlib"

====
